---------------------------- MODULE Spec2Model ----------------------------
(***************************************************************************)
(* Model of mapwcs11.c, MapServer's WCS 1.1 request handlers:              *)
(*   msWCSGetFormatsList11, msWCSGetCapabilities11 (with its               *)
(*   CoverageSummary sub-builder), msWCSDescribeCoverage11 (with its       *)
(*   CoverageDescription sub-builder) and msWCSReturnCoverage11.           *)
(*                                                                         *)
(* A C string is a sequence of one-character strings; a NULL char* is the  *)
(* value Null.  A request runs from pc = "start" to pc = "done".           *)
(***************************************************************************)
EXTENDS Integers, Sequences, FiniteSets, TLC

VARIABLES
    map,          \* mapObj: outputformatlist, layers, projURN, outputformat
    env,          \* results of the collaborators the handlers call
    request,      \* which entry point runs, and the arguments it was given
    params,       \* wcsParamsObj: version, coverages
    pc,           \* position of the running handler
    idx,          \* loop index i / j of the running handler
    doc,          \* the xmlDoc under construction (NoDoc before xmlNewDoc)
    out,          \* what has been written to stdout, in order
    exception,    \* the msWCSException call made, or NoException
    status,       \* the handler's return value once pc = "done"
    released,     \* how many times params was released (msWCSFreeParams + free)
    format_list   \* the string msWCSGetFormatsList11 returned (formats run)

vars == <<map, env, request, params, pc, idx, doc, out, exception, status,
          released, format_list>>

-----------------------------------------------------------------------------
(* Bounds of the model                                                     *)

MaxFormats == 2   \* output formats in a catalog
MaxTokens  == 2   \* format names in a layer's "formats" metadata
MaxLayers  == 2   \* layers in the map
MaxCov     == 3   \* entries in params->coverages

-----------------------------------------------------------------------------
(* C strings                                                               *)

Null == <<"NULL">>

Str1(c) == <<c>>

\* tolower() on the letters the model's strings use
CaseMap == ("G" :> "g") @@ ("T" :> "t") @@ ("I" :> "i") @@ ("P" :> "p")

tolower(c) == IF c \in DOMAIN CaseMap THEN CaseMap[c] ELSE c

strcasecmp_eq(s, t) ==
    /\ Len(s) = Len(t)
    /\ \A k \in 1..Len(s) : tolower(s[k]) = tolower(t[k])

\* position of the first ch in s at or after position from, or Len(s)+1
RECURSIVE FindChar(_, _, _)
FindChar(s, ch, from) ==
    IF from > Len(s) THEN Len(s) + 1
    ELSE IF s[from] = ch THEN from
    ELSE FindChar(s, ch, from + 1)

\* msStringSplit: one token per delimiter plus one, empty tokens kept
RECURSIVE msStringSplit(_, _)
msStringSplit(s, ch) ==
    LET p == FindChar(s, ch, 1) IN
    IF p > Len(s) THEN <<s>>
    ELSE <<SubSeq(s, 1, p - 1)>> \o msStringSplit(SubSeq(s, p + 1, Len(s)), ch)

\* CSLTokenizeStringComplex(s, ",", FALSE, FALSE): empty tokens dropped,
\* a non-NULL (possibly empty) list returned
RECURSIVE CSLTokenizeStringComplex(_, _)
CSLTokenizeStringComplex(s, ch) ==
    IF s = <<>> THEN <<>>
    ELSE LET p    == FindChar(s, ch, 1)
             tok  == SubSeq(s, 1, p - 1)
             rest == IF p > Len(s) THEN <<>> ELSE SubSeq(s, p + 1, Len(s))
         IN (IF tok = <<>> THEN <<>> ELSE <<tok>>)
                \o CSLTokenizeStringComplex(rest, ch)

\* strcat of the entries of list with sep between them
RECURSIVE JoinWith(_, _)
JoinWith(list, sep) ==
    IF list = <<>> THEN <<>>
    ELSE IF Len(list) = 1 THEN list[1]
    ELSE list[1] \o <<sep>> \o JoinWith(Tail(list), sep)

\* msLibXml2GenerateList: one child per token of the delimited string
msLibXml2GenerateList(value, ch) == msStringSplit(value, ch)

-----------------------------------------------------------------------------
(* msWCSGetFormatsList11                                                   *)

RasterRenderers == {"MS_RENDER_WITH_GD", "MS_RENDER_WITH_AGG",
                    "MS_RENDER_WITH_RAWDATA"}

GTiff == <<"G", "T", "i", "f", "f">>

\* the enumeration without the switch on the renderer
RECURSIVE RasterFormatNames_AnyRenderer(_, _)
RasterFormatNames_AnyRenderer(formatlist, i) ==
    IF i > Len(formatlist) THEN <<>>
    ELSE <<formatlist[i].name>> \o RasterFormatNames_AnyRenderer(formatlist, i + 1)

\* lines 63-93: the names to resolve, from the layer's "formats" metadata
\* (default "GTiff") or from the raster-capable output formats
RECURSIVE RasterFormatNames(_, _)
RasterFormatNames(formatlist, i) ==
    IF i > Len(formatlist) THEN <<>>
    ELSE (IF formatlist[i].renderer \in RasterRenderers
             THEN <<formatlist[i].name>> ELSE <<>>)
         \o RasterFormatNames(formatlist, i + 1)

FormatTokens(formatlist, hasLayer, formatsMetadata) ==
    IF hasLayer
    THEN msStringSplit(IF formatsMetadata = Null THEN GTiff
                       ELSE formatsMetadata, " ")
    ELSE RasterFormatNames(formatlist, 1)

\* the lookup with strcmp in place of strcasecmp
RECURSIVE FindFormat_CaseSensitive(_, _, _)
FindFormat_CaseSensitive(formatlist, token, format_i) ==
    IF format_i > Len(formatlist) THEN format_i
    ELSE IF formatlist[format_i].name = token THEN format_i
    ELSE FindFormat_CaseSensitive(formatlist, token, format_i + 1)

\* lines 107-112: index of the first format whose name matches, or
\* numoutputformats + 1
RECURSIVE FindFormat(_, _, _)
FindFormat(formatlist, token, format_i) ==
    IF format_i > Len(formatlist) THEN format_i
    ELSE IF strcasecmp_eq(formatlist[format_i].name, token) THEN format_i
    ELSE FindFormat(formatlist, token, format_i + 1)

\* the duplicate test with strcmp in place of strcasecmp
IsDuplicateMime_CaseSensitive(mimetype, formats) ==
    \E j \in 1..Len(formats) : mimetype = formats[j]

\* lines 130-136: is mimetype already among formats, ignoring case
IsDuplicateMime(mimetype, formats) ==
    \E j \in 1..Len(formats) : strcasecmp_eq(mimetype, formats[j])

\* lines 102-144: the loop over the tokens, formats being the array so far
RECURSIVE ResolveFormats(_, _, _, _)
ResolveFormats(formatlist, tokens, i, formats) ==
    IF i > Len(tokens) THEN formats
    ELSE LET format_i == FindFormat(formatlist, tokens[i], 1) IN
         IF format_i = Len(formatlist) + 1
         THEN ResolveFormats(formatlist, tokens, i + 1, formats)
         ELSE LET mimetype == formatlist[format_i].mimetype IN
              IF mimetype = Null \/ Len(mimetype) = 0
              THEN ResolveFormats(formatlist, tokens, i + 1, formats)
              ELSE IF IsDuplicateMime(mimetype, formats)
              THEN ResolveFormats(formatlist, tokens, i + 1, formats)
              ELSE ResolveFormats(formatlist, tokens, i + 1,
                                  Append(formats, mimetype))

\* lines 52-167: the comma delimited string returned
msWCSGetFormatsList11(formatlist, hasLayer, formatsMetadata) ==
    JoinWith(ResolveFormats(formatlist,
                            FormatTokens(formatlist, hasLayer, formatsMetadata),
                            1, <<>>), ",")

\* what the callers make of the string (lines 259-261, 709-711)
FormatEntries(list) ==
    IF Len(list) > 0 THEN msLibXml2GenerateList(list, ",") ELSE <<>>

-----------------------------------------------------------------------------
(* The values the handlers work on                                         *)

MS_SUCCESS == "MS_SUCCESS"
MS_FAILURE == "MS_FAILURE"
NoStatus   == "running"

NullList == <<Null>>       \* a NULL char** (params->coverages never set)

CSLCount(list) == IF list = NullList THEN 0 ELSE Len(list)

Node(tag, text, children) == [tag |-> tag, text |-> text, children |-> children]

Leaf(tag, text) == Node(tag, text, <<>>)

NoDoc == [root |-> "none", ns |-> <<>>, version |-> Null, children |-> <<>>]

NoException == [error |-> Null, version |-> Null, code |-> "none", locator |-> "none"]

NullLiteral == "(null)"    \* a literal NULL passed for a code or locator

Item(kind, text, arg) == [kind |-> kind, text |-> text, arg |-> arg]

\* one child per entry of texts, all with the same tag
ListNodes(tag, texts) == [k \in 1..Len(texts) |-> Leaf(tag, texts[k])]

\* the root's namespaces with the last xmlNewNs call left out
RootNamespaces_NoOgc ==
    << [prefix |-> "",      uri |-> "http://www.opengis.net/wcs/1.1"],
       [prefix |-> "ows",   uri |-> "MS_OWSCOMMON_OWS_NAMESPACE_URI"],
       [prefix |-> "xlink", uri |-> "MS_OWSCOMMON_W3C_XLINK_NAMESPACE_URI"],
       [prefix |-> "xsi",   uri |-> "MS_OWSCOMMON_W3C_XSI_NAMESPACE_URI"] >>

\* lines 339-343, 771-775: xmlNewNs on the root, in call order
RootNamespaces ==
    << [prefix |-> "",      uri |-> "http://www.opengis.net/wcs/1.1"],
       [prefix |-> "ows",   uri |-> "MS_OWSCOMMON_OWS_NAMESPACE_URI"],
       [prefix |-> "xlink", uri |-> "MS_OWSCOMMON_W3C_XLINK_NAMESPACE_URI"],
       [prefix |-> "xsi",   uri |-> "MS_OWSCOMMON_W3C_XSI_NAMESPACE_URI"],
       [prefix |-> "ogc",   uri |-> "MS_OWSCOMMON_OGC_NAMESPACE_URI"] >>

\* lines 330-345, 762-777: xmlNewDoc, the root node, its namespaces and
\* its version attribute
NewDocument(rootName, version) ==
    [root |-> rootName, ns |-> RootNamespaces, version |-> version,
     children |-> <<>>]

\* the fallback chain with the map asked before the layer
SupportedCRSValue_MapFirst(layer, mapProjURN) ==
    IF mapProjURN # Null THEN mapProjURN
    ELSE IF layer.projURN # Null THEN layer.projURN
    ELSE Null

\* lines 268-284, 682-698: the SupportedCRS children of a summary or
\* description; the map is asked only when the layer yields NULL
SupportedCRSValue(layer, mapProjURN) ==
    IF layer.projURN # Null THEN layer.projURN
    ELSE IF mapProjURN # Null THEN mapProjURN
    ELSE Null

SupportedCRSNodes(layer, mapProjURN) ==
    LET owned_value == SupportedCRSValue(layer, mapProjURN) IN
    IF owned_value # Null /\ Len(owned_value) > 0
    THEN ListNodes("SupportedCRS", msLibXml2GenerateList(owned_value, " "))
    ELSE <<>>

\* lines 257-263, 707-713: the SupportedFormat children
SupportedFormatNodes(m, layer) ==
    ListNodes("SupportedFormat",
              FormatEntries(msWCSGetFormatsList11(m.outputformatlist, TRUE,
                                                  layer.formats)))

\* the three bounding boxes (lines 231-252, 551-572)
BoundingBoxes ==
    << Leaf("ows:BoundingBox", "urn:ogc:def:crs:OGC::imageCRS"),
       Leaf("ows:BoundingBox", "cm.srs_urn"),
       Leaf("ows:WGS84BoundingBox", "cm.llextent") >>

\* the summary built without looking at msWCSGetCoverageMetadata's status
CoverageSummary_StatusIgnored(m, layer) ==
    [status |-> MS_SUCCESS,
     nodes  |-> << Node("CoverageSummary", "",
                        << Leaf("ows:Title", layer.name),
                           Leaf("Identifier", layer.name) >>) >>]

\* lines 175-287: status and the nodes appended to Contents
msWCSGetCapabilities11_CoverageSummary(m, layer) ==
    IF ~layer.cmOK
    THEN [status |-> MS_FAILURE, nodes |-> <<>>]
    ELSE [status |-> MS_SUCCESS,
          nodes  |-> << Node("CoverageSummary", "",
                             << Leaf("ows:Title", layer.name),
                                Leaf("Identifier", layer.name) >>
                             \o BoundingBoxes
                             \o SupportedFormatNodes(m, layer)
                             \o SupportedCRSNodes(layer, m.projURN)) >>]

\* cm.geotransform: the six coefficients, indexed as in the source
GeoTransform(g0, g1, g2, g3, g4, g5) ==
    [i \in 0..5 |-> CASE i = 0 -> g0 [] i = 1 -> g1 [] i = 2 -> g2
                      [] i = 3 -> g3 [] i = 4 -> g4 [] i = 5 -> g5]

\* A double is carried as its number of halves, which is exact for whole
\* coefficients and for the sums of a coefficient and two halved ones.
Halves(x) == 2 * x

Digits == <<"0", "1", "2", "3", "4", "5", "6", "7", "8", "9">>

\* the decimal digits of a natural number
RECURSIVE DecimalDigits(_)
DecimalDigits(n) ==
    IF n < 10 THEN <<Digits[n + 1]>>
    ELSE DecimalDigits(n \div 10) \o <<Digits[(n % 10) + 1]>>

\* sprintf "%.15g" of the double with h halves: sign, integer digits, and
\* ".5" when there is a fraction (trailing zeros are not printed)
Format15g(h) ==
    LET a == IF h < 0 THEN -h ELSE h
    IN (IF h < 0 THEN <<"-">> ELSE <<>>)
       \o DecimalDigits(a \div 2)
       \o (IF a % 2 = 1 THEN <<".", "5">> ELSE <<>>)

\* the origin without the rotation terms gt[2]/2 and gt[4]/2
GridOrigin_NoRotation(gt) ==
    Format15g(Halves(gt[0]) + gt[1]) \o <<" ">>
        \o Format15g(Halves(gt[3]) + gt[5])

\* lines 587-590: "%.15g %.15g" of gt[0]+gt[1]/2+gt[2]/2 and
\* gt[3]+gt[4]/2+gt[5]/2
GridOrigin(gt) ==
    Format15g(Halves(gt[0]) + gt[1] + gt[2]) \o <<" ">>
        \o Format15g(Halves(gt[3]) + gt[4] + gt[5])

\* lines 592-594: "%.15g %.15g" of gt[1] and gt[5]
GridOffsets(gt) ==
    Format15g(Halves(gt[1])) \o <<" ">> \o Format15g(Halves(gt[5]))

\* lines 577-598
GridCRS(gt) ==
    Node("GridCRS", "",
         << Leaf("GridBaseCRS", "cm.srs_urn"),
            Leaf("GridType", "urn:ogc:def:method:WCS:1.1:2dSimpleGrid"),
            Leaf("GridOrigin", GridOrigin(gt)),
            Leaf("GridOffsets", GridOffsets(gt)),
            Leaf("GridCS", "urn:ogc:def:cs:OGC:0.0:Grid2dSquareCS") >>)

\* lines 513-714: the CoverageDescription node of a layer
CoverageDescriptionNode(m, layer) ==
    Node("CoverageDescription", "",
         << Leaf("ows:Title", layer.name),
            Leaf("Identifier", layer.name),
            Node("Domain", "",
                 << Node("SpatialDomain", "",
                         BoundingBoxes
                         \o <<GridCRS(layer.geotransform)>>) >>),
            Node("Range", "", <<Leaf("Field", "bands")>>) >>
         \o SupportedCRSNodes(layer, m.projURN)
         \o SupportedFormatNodes(m, layer))

\* the builder without the tests of lines 495-499
CoverageDescription11_NoSkip(m, layer) ==
    IF ~layer.cmOK THEN [status |-> MS_FAILURE, nodes |-> <<>>]
    ELSE [status |-> MS_SUCCESS, nodes |-> <<CoverageDescriptionNode(m, layer)>>]

\* lines 481-717: status and the nodes appended to the root
msWCSDescribeCoverage_CoverageDescription11(m, layer) ==
    IF ~layer.hasMap THEN [status |-> MS_FAILURE, nodes |-> <<>>]
    ELSE IF ~layer.supported THEN [status |-> MS_SUCCESS, nodes |-> <<>>]
    ELSE IF ~layer.cmOK THEN [status |-> MS_FAILURE, nodes |-> <<>>]
    ELSE [status |-> MS_SUCCESS, nodes |-> <<CoverageDescriptionNode(m, layer)>>]

\* msGetLayerIndex: index of the first layer with that name, 0 for -1
RECURSIVE msGetLayerIndexFrom(_, _, _)
msGetLayerIndexFrom(layers, name, i) ==
    IF i > Len(layers) THEN 0
    ELSE IF layers[i].name = name THEN i
    ELSE msGetLayerIndexFrom(layers, name, i + 1)

msGetLayerIndex(layers, name) == msGetLayerIndexFrom(layers, name, 1)

\* the identifier list without the msWCSIsLayerSupported test
RECURSIVE SupportedNames_Unfiltered(_, _)
SupportedNames_Unfiltered(layers, i) ==
    IF i > Len(layers) THEN <<>>
    ELSE <<layers[i].name>> \o SupportedNames_Unfiltered(layers, i + 1)

\* lines 310-325: comma delimited names of the supported layers
RECURSIVE SupportedNames(_, _)
SupportedNames(layers, i) ==
    IF i > Len(layers) THEN <<>>
    ELSE (IF layers[i].supported THEN <<layers[i].name>> ELSE <<>>)
         \o SupportedNames(layers, i + 1)

IdentifierList(layers) == JoinWith(SupportedNames(layers, 1), ",")

-----------------------------------------------------------------------------
(* The configurations and requests explored                                *)

Versions == {<<"1", ".", "1", ".", "0">>, <<"1", ".", "1", ".", "1">>}

LayerNameChars == <<"a", "b", "c", "d">>

LayerName(k) == <<LayerNameChars[k]>>

LayerProjURNs == {Null, <<>>, <<"u", " ", "v">>}

MapProjURNs == {Null, <<>>, <<"w">>}

MimeTiff == <<"i", "/", "t">>
MimeTIFF == <<"I", "/", "T">>
MimePng  == <<"i", "/", "p">>

Format(name, renderer, mimetype, extension) ==
    [name |-> name, renderer |-> renderer, mimetype |-> mimetype,
     extension |-> extension]

DefaultCatalog ==
    << Format(GTiff, "MS_RENDER_WITH_RAWDATA", MimeTiff, "tif"),
       Format(<<"P", "N", "G">>, "MS_RENDER_WITH_GD", MimePng, "png"),
       Format(<<"s", "v", "g">>, "MS_RENDER_WITH_SVG", <<"i", "/", "s">>, "svg") >>

\* a north-up grid of 30 unit pixels with its corner at (100, 200)
NorthUpTransform == GeoTransform(100, 30, 0, 200, 0, -30)

Layer(name, supported, hasMap, cmOK, projURN) ==
    [name |-> name, supported |-> supported, hasMap |-> hasMap,
     cmOK |-> cmOK, projURN |-> projURN, formats |-> Null,
     geotransform |-> NorthUpTransform]

\* the layers a map can hold at position k; a field the handlers never
\* read for that layer is fixed
AttachedLayers(k) ==
    {Layer(LayerName(k), FALSE, TRUE, TRUE, Null),
     Layer(LayerName(k), TRUE, TRUE, FALSE, Null)}
    \cup {Layer(LayerName(k), TRUE, TRUE, TRUE, u) : u \in LayerProjURNs}

DetachedLayers(k) == {Layer(LayerName(k), TRUE, FALSE, TRUE, Null)}

\* the layer arrays of up to MaxLayers layers, one of choices[k] at place k
LayerLists(choices) ==
    UNION {{l \in [1..n -> UNION {choices[k] : k \in 1..n}] :
               \A k \in 1..n : l[k] \in choices[k]} : n \in 0..MaxLayers}

AnyLayers(k) == AttachedLayers(k) \cup DetachedLayers(k)

CoverageNames == {LayerName(1), LayerName(2)}

NameLists(n) == [1..n -> CoverageNames]

\* params->coverages as the request parser leaves it
CoverageInputs ==
    {NullList}
    \cup UNION {NameLists(n) : n \in 1..MaxCov}
    \cup UNION {{<<JoinWith(l, ",")>> : l \in NameLists(n)} : n \in 2..MaxCov}
    \cup {<< <<>> >>, << <<",">> >>, << <<"a", ",", ",", "b">> >>,
          << <<"a", ",", "b">>, <<"a">> >>, << <<"a">>, <<"a", ",", "b">> >>}

Idle ==
    /\ pc = "start" /\ idx = 0 /\ doc = NoDoc /\ out = <<>>
    /\ exception = NoException /\ status = NoStatus /\ released = 0
    /\ format_list = Null

Request(op, coverages, hasLayer, formats) ==
    [op |-> op, coverages |-> coverages, hasLayer |-> hasLayer,
     formats |-> formats]

Map(formatlist, layers, projURN, outputformat) ==
    [outputformatlist |-> formatlist, layers |-> layers, projURN |-> projURN,
     outputformat |-> outputformat]

Env(onlineresource, encodeOK, binaryStdoutOK, saveImageOK) ==
    [onlineresource |-> onlineresource, encodeOK |-> encodeOK,
     binaryStdoutOK |-> binaryStdoutOK, saveImageOK |-> saveImageOK]

InitGetCapabilities ==
    /\ Idle
    /\ request = Request("GetCapabilities", NullList, FALSE, Null)
    /\ \E layers \in LayerLists([k \in 1..MaxLayers |-> AttachedLayers(k)]), urn \in MapProjURNs :
           map = Map(DefaultCatalog, layers, urn, DefaultCatalog[1])
    /\ \E url \in {Null, <<"h">>}, enc \in BOOLEAN, ok \in BOOLEAN :
           /\ url = Null => enc
           /\ env = Env(url, enc, ok, TRUE)
    /\ \E v \in Versions : params = [version |-> v, coverages |-> NullList]

InitDescribeCoverage ==
    /\ Idle
    /\ \E c \in CoverageInputs :
           /\ request = Request("DescribeCoverage", c, FALSE, Null)
           /\ params = [version |-> <<"1", ".", "1", ".", "1">>, coverages |-> c]
    /\ \E layers \in LayerLists([k \in 1..MaxLayers |-> AnyLayers(k)]), urn \in MapProjURNs :
           map = Map(DefaultCatalog, layers, urn, DefaultCatalog[1])
    /\ \E ok \in BOOLEAN : env = Env(<<"h">>, TRUE, ok, TRUE)

InitGetCoverage ==
    /\ Idle
    /\ request = Request("GetCoverage", NullList, FALSE, Null)
    /\ \E f \in 1..Len(DefaultCatalog), urn \in MapProjURNs :
           map = Map(DefaultCatalog, <<>>, urn, DefaultCatalog[f])
    /\ \E ok \in BOOLEAN : env = Env(<<"h">>, TRUE, TRUE, ok)
    /\ \E v \in Versions : params = [version |-> v, coverages |-> NullList]

Init == InitGetCapabilities \/ InitDescribeCoverage \/ InitGetCoverage

-----------------------------------------------------------------------------
(* msWCSException(map, version, code, locator): the exception reporter     *)
(* writes its report and the handler returns its result.  error is the     *)
(* argument of the msSetError call made just before, Null when none is.    *)

msWCSException(error, version, code, locator) ==
    /\ exception' = [error |-> error, version |-> version, code |-> code,
                     locator |-> locator]
    /\ out' = Append(out, Item("exception", code, locator))
    /\ status' = MS_FAILURE
    /\ pc' = "done"

-----------------------------------------------------------------------------
(* msWCSGetCapabilities11                                                  *)

DomainType(name, value) == Node("ows:Parameter", name, <<Leaf("ows:Value", value)>>)

\* lines 370-427
OperationsMetadata(m, version) ==
    LET identifier_list == IdentifierList(m.layers)
        formats == msWCSGetFormatsList11(m.outputformatlist, FALSE, Null)
    IN Node("ows:OperationsMetadata", "",
         << Node("ows:Operation", "GetCapabilities",
                 << DomainType("service", "WCS"),
                    DomainType("version", version) >>),
            Node("ows:Operation", "DescribeCoverage",
                 << DomainType("service", "WCS"),
                    DomainType("version", version),
                    DomainType("identifiers", identifier_list) >>),
            Node("ows:Operation", "GetCoverage",
                 << DomainType("service", "WCS"),
                    DomainType("version", version),
                    DomainType("Identifier", identifier_list),
                    DomainType("InterpolationType", "NEAREST_NEIGHBOUR,BILINEAR"),
                    DomainType("format", formats),
                    DomainType("store", "false"),
                    DomainType("GridBaseCRS", "urn:ogc:def:crs:epsg::4326") >>) >>)

\* lines 330-356: the document, its root and the service metadata
GC_CreateDocument ==
    /\ request.op = "GetCapabilities" /\ pc = "start"
    /\ doc' = [NewDocument("Capabilities", params.version) EXCEPT
                 !.children = << Leaf("ows:ServiceIdentification", params.version),
                                 Leaf("ows:ServiceProvider", "") >>]
    /\ pc' = "onlineresource"
    /\ UNCHANGED <<map, env, request, params, idx, out, exception, status,
                   released, format_list>>

\* the base URL test without the msEncodeHTMLEntities half
GC_OnlineResource_EncodingUnchecked ==
    /\ request.op = "GetCapabilities" /\ pc = "onlineresource"
    /\ IF env.onlineresource = Null
       THEN msWCSException(Null, params.version, "NoApplicableCode",
                           "NoApplicableCode")
       ELSE /\ pc' = "operations"
            /\ UNCHANGED <<out, exception, status>>
    /\ UNCHANGED <<map, env, request, params, idx, doc, released, format_list>>

\* lines 359-365
GC_OnlineResource ==
    /\ request.op = "GetCapabilities" /\ pc = "onlineresource"
    /\ IF env.onlineresource = Null \/ ~env.encodeOK
       THEN msWCSException(Null, params.version, "NoApplicableCode",
                           "NoApplicableCode")
       ELSE /\ pc' = "operations"
            /\ UNCHANGED <<out, exception, status>>
    /\ UNCHANGED <<map, env, request, params, idx, doc, released, format_list>>

\* lines 370-432: OperationsMetadata, then the empty Contents section
GC_OperationsMetadata ==
    /\ request.op = "GetCapabilities" /\ pc = "operations"
    /\ doc' = [doc EXCEPT !.children =
                 doc.children \o << OperationsMetadata(map, params.version),
                                    Node("Contents", "", <<>>) >>]
    /\ idx' = 1
    /\ pc' = "contents"
    /\ UNCHANGED <<map, env, request, params, out, exception, status,
                   released, format_list>>

AppendToLastChild(d, nodes) ==
    [d EXCEPT !.children[Len(d.children)].children = @ \o nodes]

\* lines 434-445: one turn of the loop over the layers
GC_CoverageSummary ==
    /\ request.op = "GetCapabilities" /\ pc = "contents"
    /\ idx <= Len(map.layers)
    /\ LET layer == map.layers[idx]
           r == msWCSGetCapabilities11_CoverageSummary(map, layer)
       IN IF ~layer.supported
          THEN /\ idx' = idx + 1
               /\ UNCHANGED <<doc, status, pc>>
          ELSE IF r.status # MS_SUCCESS
          THEN /\ status' = MS_FAILURE
               /\ pc' = "done"
               /\ UNCHANGED <<doc, idx>>
          ELSE /\ doc' = AppendToLastChild(doc, r.nodes)
               /\ idx' = idx + 1
               /\ UNCHANGED <<status, pc>>
    /\ UNCHANGED <<map, env, request, params, out, exception, released,
                   format_list>>

\* lines 451-460: the header and the serialized document
WriteDocument ==
    IF ~env.binaryStdoutOK
    THEN /\ status' = MS_FAILURE
         /\ pc' = "done"
         /\ UNCHANGED out
    ELSE /\ out' = out \o << Item("header", "Content-type: text/xml", Null),
                             Item("document", "ISO-8859-1", doc) >>
         /\ pc' = "cleanup"
         /\ UNCHANGED status

GC_Write ==
    /\ request.op = "GetCapabilities" /\ pc = "contents"
    /\ idx > Len(map.layers)
    /\ WriteDocument
    /\ UNCHANGED <<map, env, request, params, idx, doc, exception, released,
                   format_list>>

\* lines 464-474
GC_Cleanup ==
    /\ request.op = "GetCapabilities" /\ pc = "cleanup"
    /\ doc' = NoDoc
    /\ released' = released + 1
    /\ status' = MS_SUCCESS
    /\ pc' = "done"
    /\ UNCHANGED <<map, env, request, params, idx, out, exception, format_list>>

NextGetCapabilities ==
    \/ GC_CreateDocument
    \/ GC_OnlineResource
    \/ GC_OperationsMetadata
    \/ GC_CoverageSummary
    \/ GC_Write
    \/ GC_Cleanup

-----------------------------------------------------------------------------
(* msWCSDescribeCoverage11                                                 *)

\* the coverages list used as it was given
NormalizeCoverages_NoSplit(coverages) == coverages

\* lines 736-742: a single entry is split on commas and replaces the list
NormalizeCoverages(coverages) ==
    IF CSLCount(coverages) = 1
    THEN CSLTokenizeStringComplex(coverages[1], ",")
    ELSE coverages

\* the validation loop running on to the last entry that names no layer
RECURSIVE FirstUnresolved_Last(_, _, _)
FirstUnresolved_Last(layers, coverages, j) ==
    IF coverages = NullList \/ j > Len(coverages) THEN 0
    ELSE LET later == FirstUnresolved_Last(layers, coverages, j + 1) IN
         IF later # 0 THEN later
         ELSE IF \A i \in 1..Len(layers) : layers[i].name # coverages[j] THEN j
         ELSE 0

\* lines 747-757: index of the first entry that names no layer, 0 if none
RECURSIVE FirstUnresolved(_, _, _)
FirstUnresolved(layers, coverages, j) ==
    IF coverages = NullList \/ j > Len(coverages) THEN 0
    ELSE IF msGetLayerIndex(layers, coverages[j]) = 0 THEN j
    ELSE FirstUnresolved(layers, coverages, j + 1)

\* the targets without the "return all layers" branch
TargetLayers_ListOnly(layers, coverages) ==
    IF coverages # NullList
    THEN [j \in 1..Len(coverages) |->
             layers[msGetLayerIndex(layers, coverages[j])]]
    ELSE <<>>

\* lines 783-795: the layers described, in order
TargetLayers(layers, coverages) ==
    IF coverages # NullList
    THEN [j \in 1..Len(coverages) |->
             layers[msGetLayerIndex(layers, coverages[j])]]
    ELSE layers

DC_Normalize ==
    /\ request.op = "DescribeCoverage" /\ pc = "start"
    /\ params' = [params EXCEPT !.coverages = NormalizeCoverages(params.coverages)]
    /\ pc' = "validate"
    /\ UNCHANGED <<map, env, request, idx, doc, out, exception, status,
                   released, format_list>>

DC_Validate ==
    /\ request.op = "DescribeCoverage" /\ pc = "validate"
    /\ LET j == FirstUnresolved(map.layers, params.coverages, 1) IN
       IF j # 0
       THEN msWCSException(params.coverages[j], params.coverages[j],
                           "CoverageNotDefined", "coverage")
       ELSE /\ pc' = "create"
            /\ UNCHANGED <<out, exception, status>>
    /\ UNCHANGED <<map, env, request, params, idx, doc, released, format_list>>

\* lines 762-777
DC_CreateDocument ==
    /\ request.op = "DescribeCoverage" /\ pc = "create"
    /\ doc' = NewDocument("CoverageDescriptions", params.version)
    /\ idx' = 1
    /\ pc' = "describe"
    /\ UNCHANGED <<map, env, request, params, out, exception, status,
                   released, format_list>>

\* the describe loop returning failure when a description fails, as the
\* Contents loop of GetCapabilities does
DC_Describe_AbortOnFailure ==
    /\ request.op = "DescribeCoverage" /\ pc = "describe"
    /\ LET targets == TargetLayers(map.layers, params.coverages) IN
       /\ idx <= Len(targets)
       /\ LET r == msWCSDescribeCoverage_CoverageDescription11(map, targets[idx])
          IN IF r.status # MS_SUCCESS
             THEN /\ status' = MS_FAILURE
                  /\ pc' = "done"
                  /\ UNCHANGED <<doc, idx>>
             ELSE /\ doc' = [doc EXCEPT !.children = @ \o r.nodes]
                  /\ idx' = idx + 1
                  /\ UNCHANGED <<status, pc>>
    /\ UNCHANGED <<map, env, request, params, out, exception, released,
                   format_list>>

\* lines 783-795: one turn of the loop; the sub-builder's status is dropped
DC_Describe ==
    /\ request.op = "DescribeCoverage" /\ pc = "describe"
    /\ LET targets == TargetLayers(map.layers, params.coverages) IN
       /\ idx <= Len(targets)
       /\ doc' = [doc EXCEPT !.children = @ \o
                    msWCSDescribeCoverage_CoverageDescription11(map, targets[idx]).nodes]
    /\ idx' = idx + 1
    /\ UNCHANGED <<map, env, request, params, pc, out, exception, status,
                   released, format_list>>

\* lines 800-815
DC_Write ==
    /\ request.op = "DescribeCoverage" /\ pc = "describe"
    /\ idx > Len(TargetLayers(map.layers, params.coverages))
    /\ WriteDocument
    /\ UNCHANGED <<map, env, request, params, idx, doc, exception, released,
                   format_list>>

\* lines 820-826
DC_Cleanup ==
    /\ request.op = "DescribeCoverage" /\ pc = "cleanup"
    /\ doc' = NoDoc
    /\ released' = released + 1
    /\ status' = MS_SUCCESS
    /\ pc' = "done"
    /\ UNCHANGED <<map, env, request, params, idx, out, exception, format_list>>

NextDescribeCoverage ==
    \/ DC_Normalize
    \/ DC_Validate
    \/ DC_CreateDocument
    \/ DC_Describe
    \/ DC_Write
    \/ DC_Cleanup

-----------------------------------------------------------------------------
(* msWCSReturnCoverage11                                                   *)

Line(kind, text) == Item(kind, text, Null)

\* lines 844-872: everything the first msIO_fprintf writes
CoverageEnvelope(outputformat) ==
    << Line("header", "Content-Type: multipart/mixed; boundary=wcs"),
       Line("blank", ""),
       Line("boundary", "--wcs"),
       Line("partheader", "Content-Type: text/xml"),
       Line("partheader", "Content-ID: wcs.xml"),
       Line("blank", ""),
       Item("manifest", "cid:coverage/wcs.%s", outputformat.extension),
       Line("boundary", "--wcs"),
       Item("partheader", "Content-Type: %s", outputformat.mimetype),
       Line("partheader", "Content-Description: coverage data"),
       Line("partheader", "Content-Transfer-Encoding: binary"),
       Item("partheader", "Content-ID: coverage/wcs.%s", outputformat.extension),
       Line("partheader", "Content-Disposition: INLINE"),
       Line("blank", "") >>

\* the last write without the closing boundary
CoverageClosing_BlankOnly == << Line("blank", "") >>

\* line 880
CoverageClosing == << Line("closing", "--wcs--"), Line("blank", "") >>

RC_WriteEnvelope ==
    /\ request.op = "GetCoverage" /\ pc = "start"
    /\ out' = out \o CoverageEnvelope(map.outputformat)
    /\ pc' = "save"
    /\ UNCHANGED <<map, env, request, params, idx, doc, exception, status,
                   released, format_list>>

\* the encoding step with the output started afresh for the exception
RC_SaveImage_OutputWithdrawn ==
    /\ request.op = "GetCoverage" /\ pc = "save"
    /\ IF env.saveImageOK
       THEN /\ out' = Append(out, Item("image", "msSaveImage", map.outputformat.name))
            /\ pc' = "close"
            /\ UNCHANGED <<exception, status>>
       ELSE /\ exception' = [error |-> Null, version |-> params.version,
                             code |-> NullLiteral, locator |-> NullLiteral]
            /\ out' = <<Item("exception", NullLiteral, NullLiteral)>>
            /\ status' = MS_FAILURE
            /\ pc' = "done"
    /\ UNCHANGED <<map, env, request, params, idx, doc, released, format_list>>

\* lines 874-878: msSaveImage writes the image to stdout, or fails
RC_SaveImage ==
    /\ request.op = "GetCoverage" /\ pc = "save"
    /\ IF env.saveImageOK
       THEN /\ out' = Append(out, Item("image", "msSaveImage", map.outputformat.name))
            /\ pc' = "close"
            /\ UNCHANGED <<exception, status>>
       ELSE msWCSException(Null, params.version, NullLiteral, NullLiteral)
    /\ UNCHANGED <<map, env, request, params, idx, doc, released, format_list>>

\* lines 880-882
RC_Close ==
    /\ request.op = "GetCoverage" /\ pc = "close"
    /\ out' = out \o CoverageClosing
    /\ status' = MS_SUCCESS
    /\ pc' = "done"
    /\ UNCHANGED <<map, env, request, params, idx, doc, exception, released,
                   format_list>>

NextReturnCoverage ==
    \/ RC_WriteEnvelope
    \/ RC_SaveImage
    \/ RC_Close

-----------------------------------------------------------------------------
(* The request handlers                                                    *)

Next == NextGetCapabilities \/ NextDescribeCoverage \/ NextReturnCoverage

Spec == Init /\ [][Next]_vars

-----------------------------------------------------------------------------
(* msWCSGetFormatsList11 applied to bounded catalogs and name lists        *)

FormatNames == {GTiff, <<"g", "t", "i", "f", "f">>, <<"P", "N", "G">>}

Renderers == RasterRenderers \cup {"MS_RENDER_WITH_SVG"}

MimeTypes == {Null, <<>>, MimeTiff, MimeTIFF, MimePng}

Catalogs(renderers) ==
    UNION {[1..n -> {Format(nm, r, mt, "x") :
                       nm \in FormatNames, r \in renderers, mt \in MimeTypes}]
             : n \in 0..MaxFormats}

\* the layer's "formats" metadata: unset, empty or space separated names
FormatsMetadata ==
    {Null, <<>>}
    \cup UNION {{JoinWith(l, " ") : l \in [1..n -> FormatNames]} : n \in 1..MaxTokens}

InitFormats ==
    /\ Idle
    /\ params = [version |-> <<"1", ".", "1", ".", "0">>, coverages |-> NullList]
    /\ env = Env(<<"h">>, TRUE, TRUE, TRUE)
    /\ \/ /\ request = Request("GetFormatsList", NullList, FALSE, Null)
          /\ \E c \in Catalogs(Renderers) :
                 map = Map(c, <<>>, Null, DefaultCatalog[1])
       \/ /\ \E md \in FormatsMetadata :
                 request = Request("GetFormatsList", NullList, TRUE, md)
          /\ \E c \in Catalogs({"MS_RENDER_WITH_GD"}) :
                 map = Map(c, <<>>, Null, DefaultCatalog[1])

FL_GetFormatsList ==
    /\ request.op = "GetFormatsList" /\ pc = "start"
    /\ format_list' = msWCSGetFormatsList11(map.outputformatlist,
                                            request.hasLayer, request.formats)
    /\ pc' = "done"
    /\ UNCHANGED <<map, env, request, params, idx, doc, out, exception,
                   status, released>>

NextFormats == FL_GetFormatsList

SpecFormats == InitFormats /\ [][NextFormats]_vars

-----------------------------------------------------------------------------
(* DescribeCoverage of one layer over a range of geotransforms             *)

GridCorners == {-7, 0, 100, 200}

PixelSizes == {-30, -1, 1, 30}

Rotations == {-3, 0, 1}

GeoTransforms ==
    {GeoTransform(g0, g1, g2, g3, g4, g5) :
        g0 \in GridCorners, g1 \in PixelSizes, g2 \in Rotations,
        g3 \in GridCorners, g4 \in Rotations, g5 \in PixelSizes}

InitGrid ==
    /\ Idle
    /\ \E c \in {NullList, <<LayerName(1)>>} :
           /\ request = Request("DescribeCoverage", c, FALSE, Null)
           /\ params = [version |-> <<"1", ".", "1", ".", "0">>, coverages |-> c]
    /\ \E gt \in GeoTransforms :
           map = Map(DefaultCatalog,
                     << [Layer(LayerName(1), TRUE, TRUE, TRUE, Null)
                            EXCEPT !.geotransform = gt] >>,
                     Null, DefaultCatalog[1])
    /\ env = Env(<<"h">>, TRUE, TRUE, TRUE)

SpecGrid == InitGrid /\ [][NextDescribeCoverage]_vars

-----------------------------------------------------------------------------
(* Properties                                                              *)

Min(S) == CHOOSE x \in S : \A y \in S : x <= y

\* the documents written to stdout
WrittenDocuments == {out[k].arg : k \in {i \in 1..Len(out) : out[i].kind = "document"}}

\* something of the normal text/xml response is on stdout
NormalOutputWritten ==
    \E k \in 1..Len(out) : out[k].kind \in {"header", "document"}

Builders == {"GetCapabilities", "DescribeCoverage"}

TagTexts(nodes, tag) ==
    LET RECURSIVE Pick(_)
        Pick(k) == IF k > Len(nodes) THEN <<>>
                   ELSE (IF nodes[k].tag = tag THEN <<nodes[k].text>> ELSE <<>>)
                        \o Pick(k + 1)
    IN Pick(1)

(* ---- C1 ---- *)

FL_Tokens == FormatTokens(map.outputformatlist, request.hasLayer, request.formats)

\* the MIME type a name resolves to: that of the first catalog entry whose
\* name equals it ignoring case, Null when there is none
FL_MimeOf(token) ==
    LET matches == {k \in 1..Len(map.outputformatlist) :
                       strcasecmp_eq(map.outputformatlist[k].name, token)}
    IN IF matches = {} THEN Null ELSE map.outputformatlist[Min(matches)].mimetype

\* the MIME type of each name walked, in order
FL_Mimes == [p \in 1..Len(FL_Tokens) |-> FL_MimeOf(FL_Tokens[p])]

FL_Entries == FormatEntries(format_list)

C1_ExampleCatalog ==
    << Format(<<"a">>, "MS_RENDER_WITH_GD", MimeTiff, "x"),
       Format(<<"b">>, "MS_RENDER_WITH_GD", MimeTIFF, "x"),
       Format(<<"c">>, "MS_RENDER_WITH_GD", MimePng, "x") >>

C1_Example ==
    FormatEntries(msWCSGetFormatsList11(C1_ExampleCatalog, FALSE, Null))
        = <<MimeTiff, MimePng>>

\* C1: the MIME list msWCSGetFormatsList11 returns holds no two entries that
\* are equal ignoring case; its entries are the first occurrences met while
\* walking the names, in that order; a name is dropped only for a MIME type
\* equal, ignoring case, to a kept one (i/t, I/T, i/p gives i/t, i/p).
C1_FormatsUniqueInFirstSeenOrder ==
    (request.op = "GetFormatsList" /\ pc = "done") =>
        LET e      == FL_Entries
            mimes  == FL_Mimes
            usable == {p \in 1..Len(mimes) : mimes[p] \notin {Null, <<>>}}
            occ    == [k \in 1..Len(e) |->
                          {p \in usable : strcasecmp_eq(mimes[p], e[k])}]
        IN
        /\ \A a, b \in 1..Len(e) : a # b => ~strcasecmp_eq(e[a], e[b])
        /\ \A k \in 1..Len(e) : occ[k] # {} /\ mimes[Min(occ[k])] = e[k]
        /\ \A a, b \in 1..Len(e) : a < b => Min(occ[a]) < Min(occ[b])
        /\ \A p \in usable : \E k \in 1..Len(e) : p \in occ[k]
        /\ C1_Example

\* a run where a later name's MIME type was dropped as a case variant of
\* a kept one
C1_Witness ==
    /\ request.op = "GetFormatsList" /\ pc = "done"
    /\ FL_Entries = <<MimeTiff>>
    /\ \E p, q \in 1..Len(FL_Mimes) :
          p < q /\ FL_Mimes[p] = MimeTiff /\ FL_Mimes[q] = MimeTIFF

(* ---- C2 ---- *)

\* the layers named name
LayersNamed(name) == {i \in 1..Len(map.layers) : map.layers[i].name = name}

\* the entries of the identifier list l that name no layer
UnresolvedIn(l) == {j \in 1..Len(l) : LayersNamed(l[j]) = {}}

RECURSIVE Concat(_)
Concat(seqs) == IF seqs = <<>> THEN <<>> ELSE Head(seqs) \o Concat(Tail(seqs))

\* the CoverageDescription nodes of the identifier list l, all resolved
DescriptionsOf(l) ==
    Concat([j \in 1..Len(l) |->
              msWCSDescribeCoverage_CoverageDescription11(
                  map, map.layers[Min(LayersNamed(l[j]))]).nodes])

\* the finished DescribeCoverage call had the outcome the identifier list
\* l determines
DescribeOutcomeOf(l) ==
    IF UnresolvedIn(l) # {}
    THEN /\ exception.code = "CoverageNotDefined"
         /\ exception.error = l[Min(UnresolvedIn(l))]
         /\ status = MS_FAILURE
         /\ WrittenDocuments = {}
    ELSE /\ exception = NoException
         /\ IF env.binaryStdoutOK
            THEN /\ status = MS_SUCCESS
                 /\ \E d \in WrittenDocuments :
                       /\ WrittenDocuments = {d}
                       /\ d.children = DescriptionsOf(l)
            ELSE /\ status = MS_FAILURE
                 /\ WrittenDocuments = {}

\* C2: DescribeCoverage given the single coverage value "x,y,z" ends as
\* DescribeCoverage given the three values x, y, z does: same validation
\* result, same CoverageDescription nodes, same status.
C2_JoinedEqualsRepeated ==
    (request.op = "DescribeCoverage" /\ pc = "done") =>
        \A l \in NameLists(3) :
            request.coverages \in {l, <<JoinWith(l, ",")>>} => DescribeOutcomeOf(l)

\* a comma joined request that was split and described
C2_Witness ==
    /\ request.op = "DescribeCoverage" /\ pc = "done" /\ status = MS_SUCCESS
    /\ \E l \in NameLists(3) :
          /\ request.coverages = <<JoinWith(l, ",")>>
          /\ l[1] # l[2]
          /\ \E d \in WrittenDocuments : Len(d.children) = 3

(* ---- C3 ---- *)

\* C3: once the coverage list is normalized, an identifier that names no
\* layer stops DescribeCoverage in validation: the exception is
\* CoverageNotDefined for the first such identifier, no document is created
\* and nothing of the normal response is written.
C3_UnknownIdentifierFailsFirst ==
    (/\ request.op = "DescribeCoverage" /\ pc # "start"
     /\ params.coverages # NullList /\ UnresolvedIn(params.coverages) # {}) =>
        /\ pc \in {"validate", "done"}
        /\ doc = NoDoc
        /\ ~NormalOutputWritten
        /\ pc = "done" =>
              /\ status = MS_FAILURE
              /\ exception.code = "CoverageNotDefined"
              /\ exception.error = params.coverages[Min(UnresolvedIn(params.coverages))]
              /\ exception.version = exception.error

\* the failing identifier comes after a valid one, and another unknown
\* one follows it
C3_Witness ==
    /\ request.op = "DescribeCoverage" /\ pc = "done"
    /\ exception.code = "CoverageNotDefined"
    /\ Len(params.coverages) = 3
    /\ UnresolvedIn(params.coverages) = {2, 3}

(* ---- C4 ---- *)

NonEmpty(value) == value # Null /\ value # <<>>

\* the CoverageSummary nodes of a Capabilities document
SummaryNodes(d) ==
    IF d.root = "Capabilities" /\ Len(d.children) > 0
       /\ d.children[Len(d.children)].tag = "Contents"
    THEN d.children[Len(d.children)].children
    ELSE <<>>

\* the CoverageDescription nodes of a CoverageDescriptions document
DescriptionNodes(d) ==
    IF d.root = "CoverageDescriptions" THEN d.children ELSE <<>>

CoverageNodes(d) == SummaryNodes(d) \o DescriptionNodes(d)

Range(f) == {f[x] : x \in DOMAIN f}

\* every summary and description built so far or written
BuiltNodes == UNION {Range(CoverageNodes(d)) : d \in {doc} \cup WrittenDocuments}

NodeLayer(n) == map.layers[Min(LayersNamed(TagTexts(n.children, "Identifier")[1]))]

NodeCRS(n) == TagTexts(n.children, "SupportedCRS")

\* C4: a summary or description lists the layer's own CRSs whenever the
\* layer-level resolution is non-empty, lists the map's only when the
\* layer-level one is empty, and lists none when both are empty; either way
\* the node is built for every layer the loop has passed whose coverage
\* metadata is available.
C4_CRSFallback ==
    LET nodes == BuiltNodes
        ids   == {TagTexts(n.children, "Identifier")[1] : n \in nodes}
    IN
    /\ \A n \in nodes :
          LET layerURN == NodeLayer(n).projURN
              crs      == NodeCRS(n)
          IN
          /\ NonEmpty(layerURN) => crs = msStringSplit(layerURN, " ")
          /\ (NonEmpty(map.projURN) /\ crs = msStringSplit(map.projURN, " ")) =>
                ~NonEmpty(layerURN)
          /\ (~NonEmpty(layerURN) /\ ~NonEmpty(map.projURN)) => crs = <<>>
    /\ (request.op = "GetCapabilities" /\ pc = "contents") =>
          \A k \in 1..(idx - 1) :
              map.layers[k].supported => map.layers[k].name \in ids
    /\ (request.op = "DescribeCoverage" /\ pc = "describe") =>
          LET targets == TargetLayers(map.layers, params.coverages) IN
          \A j \in 1..(idx - 1) :
              (targets[j].hasMap /\ targets[j].supported /\ targets[j].cmOK) =>
                  targets[j].name \in ids

\* a written Capabilities document with a summary that has no SupportedCRS
\* because neither the layer nor the map gave one, and another that took
\* the map's
C4_Witness ==
    /\ request.op = "GetCapabilities" /\ pc = "done" /\ status = MS_SUCCESS
    /\ \E d \in WrittenDocuments :
          \E a, b \in 1..Len(SummaryNodes(d)) :
              /\ NodeLayer(SummaryNodes(d)[a]).projURN = Null
              /\ NodeCRS(SummaryNodes(d)[a]) = <<Str1("w")>>
              /\ NodeLayer(SummaryNodes(d)[b]).projURN = <<>>
              /\ NodeCRS(SummaryNodes(d)[b]) = <<>>

(* ---- C5 ---- *)

MimeParts == Cardinality({k \in 1..Len(out) : out[k].kind = "boundary"})

BodyOpensWithBoundary ==
    /\ Len(out) >= 3
    /\ out[1].kind = "header" /\ out[2].kind = "blank"
    /\ out[3].kind = "boundary" /\ out[3].text = "--wcs"

BodyEndsWithClosing ==
    /\ Len(out) >= 2
    /\ out[Len(out) - 1].kind = "closing" /\ out[Len(out) - 1].text = "--wcs--"
    /\ out[Len(out)].kind = "blank"

\* C5 as stated: whatever the outcome of image encoding, the response has
\* two MIME parts, opens with --wcs and ends with --wcs--.
C5_AlwaysTwoPartsAndClosed ==
    (request.op = "GetCoverage" /\ pc = "done") =>
        MimeParts = 2 /\ BodyOpensWithBoundary /\ BodyEndsWithClosing

\* C5 amended: the response has two MIME parts and opens with --wcs whatever
\* the outcome of image encoding; it ends with --wcs-- when encoding
\* succeeds, and with the exception report, unclosed, when encoding fails.
C5_TwoPartsClosedOnSuccess ==
    (request.op = "GetCoverage" /\ pc = "done") =>
        /\ MimeParts = 2
        /\ BodyOpensWithBoundary
        /\ env.saveImageOK => (status = MS_SUCCESS /\ BodyEndsWithClosing)
        /\ ~env.saveImageOK =>
              /\ status = MS_FAILURE
              /\ out[Len(out)].kind = "exception"
              /\ \A k \in 1..Len(out) : out[k].kind # "closing"

\* a coverage returned with its image encoded
C5_Witness ==
    /\ request.op = "GetCoverage" /\ pc = "done" /\ status = MS_SUCCESS
    /\ \E k \in 1..Len(out) : out[k].kind = "image"

(* ---- C6 ---- *)

\* C6 as stated: each builder releases the params object it was given
\* exactly once on every exit path.
C6_ParamsReleasedOnEveryExit ==
    (request.op \in Builders /\ pc = "done") => released = 1

(* ---- C7 ---- *)

\* C7: every document GetCapabilities or DescribeCoverage writes declares
\* exactly the five namespaces (default WCS 1.1, ows, xlink, xsi, ogc) on
\* its root and carries the version of the request parameters.
C7_FiveNamespacesAndVersion ==
    request.op \in Builders =>
        \A d \in WrittenDocuments :
            /\ Len(d.ns) = 5
            /\ {d.ns[k].prefix : k \in 1..Len(d.ns)} = {"", "ows", "xlink", "xsi", "ogc"}
            /\ \A k \in 1..Len(d.ns) :
                  d.ns[k].prefix = "" => d.ns[k].uri = "http://www.opengis.net/wcs/1.1"
            /\ d.version = params.version
            /\ d.root = (IF request.op = "GetCapabilities" THEN "Capabilities"
                         ELSE "CoverageDescriptions")

\* a CoverageDescriptions document written for version 1.1.1
C7_Witness ==
    /\ request.op = "DescribeCoverage" /\ pc = "done"
    /\ params.version = <<"1", ".", "1", ".", "1">>
    /\ \E d \in WrittenDocuments : Len(d.children) > 0

(* ---- C8 ---- *)

BaseURLMissing == env.onlineresource = Null \/ ~env.encodeOK

\* C8: with the base URL unavailable or not encodable, GetCapabilities
\* stops at the URL test with a NoApplicableCode exception: nothing of the
\* text/xml response is written and neither OperationsMetadata nor Contents
\* is built.
C8_MissingBaseURLAborts ==
    (request.op = "GetCapabilities" /\ BaseURLMissing) =>
        /\ pc \in {"start", "onlineresource", "done"}
        /\ ~NormalOutputWritten
        /\ \A k \in 1..Len(doc.children) :
              doc.children[k].tag \notin {"ows:OperationsMetadata", "Contents"}
        /\ pc = "done" =>
              /\ status = MS_FAILURE
              /\ exception.code = "NoApplicableCode"
              /\ exception.version = params.version

\* the abort taken because the URL could not be encoded
C8_Witness ==
    /\ request.op = "GetCapabilities" /\ pc = "done"
    /\ env.onlineresource # Null /\ ~env.encodeOK
    /\ exception.code = "NoApplicableCode"

(* ---- C9 ---- *)

SummaryFails == \E k \in 1..Len(map.layers) :
                    map.layers[k].supported /\ ~map.layers[k].cmOK

\* C9: when CoverageSummary construction fails for a supported layer,
\* GetCapabilities returns failure and nothing of the capabilities response
\* is ever written, however many summaries were built before.
C9_SummaryFailureWritesNothing ==
    (request.op = "GetCapabilities" /\ SummaryFails) =>
        /\ ~NormalOutputWritten
        /\ pc = "done" => status = MS_FAILURE

\* the second layer's summary fails after the first one's was built
C9_Witness ==
    /\ request.op = "GetCapabilities" /\ pc = "done" /\ status = MS_FAILURE
    /\ ~BaseURLMissing /\ env.binaryStdoutOK
    /\ Len(map.layers) = 2 /\ map.layers[2].supported /\ ~map.layers[2].cmOK
    /\ Len(SummaryNodes(doc)) = 1

(* ---- C10 ---- *)

ExceptionReported ==
    /\ exception # NoException
    /\ \E k \in 1..Len(out) : out[k].kind = "exception"

\* C10 as stated: every fatal exit of GetCapabilities and DescribeCoverage
\* produces an exception document through msWCSException and leaves nothing
\* of the normal document on the output.
C10_FatalExitsReportException ==
    (request.op \in Builders /\ pc = "done" /\ status = MS_FAILURE) =>
        ExceptionReported /\ ~NormalOutputWritten

(* ---- C11 ---- *)

\* the catalog entries whose renderer is GD, AGG or RAWDATA
RasterCapable ==
    {k \in 1..Len(map.outputformatlist) :
        map.outputformatlist[k].renderer
            \in {"MS_RENDER_WITH_GD", "MS_RENDER_WITH_AGG", "MS_RENDER_WITH_RAWDATA"}}

\* C11: called without a layer on a catalog with no raster-capable format
\* (renderer GD, AGG or RAWDATA), msWCSGetFormatsList11 returns the empty
\* list.
C11_NoRasterFormatGivesEmptyList ==
    (request.op = "GetFormatsList" /\ pc = "done" /\ ~request.hasLayer
        /\ RasterCapable = {}) =>
        format_list = <<>> /\ FL_Entries = <<>>

\* a catalog of two formats with usable MIME types, neither raster-capable
C11_Witness ==
    /\ request.op = "GetFormatsList" /\ pc = "done" /\ ~request.hasLayer
    /\ Len(map.outputformatlist) = 2 /\ RasterCapable = {}
    /\ \A k \in 1..2 : map.outputformatlist[k].mimetype \notin {Null, <<>>}
    /\ format_list = <<>>

(* ---- C12 ---- *)

\* C12 as stated: called without a layer, every MIME type returned is the
\* MIME type of a raster-capable format of the catalog, so a non-raster
\* format's MIME type appears only if a raster-capable format has it too;
\* for every catalog, also one with two names equal ignoring case.
C12_OnlyRasterMimeTypes ==
    (request.op = "GetFormatsList" /\ pc = "done" /\ ~request.hasLayer) =>
        \A k \in 1..Len(FL_Entries) :
            \E r \in RasterCapable :
                map.outputformatlist[r].mimetype = FL_Entries[k]

(* ---- C13 ---- *)

\* the name resolves to a format with a non-empty MIME type
FL_Usable(token) == FL_MimeOf(token) \notin {Null, <<>>}

\* C13: names are matched to formats ignoring case; a name matching no
\* format, or matching one whose MIME type is missing or empty, contributes
\* nothing and does not stop the resolution: the result is the one obtained
\* from the list with those names removed, and every name that does resolve
\* to a MIME type is represented in it.
C13_SkippedNamesContributeNothing ==
    (request.op = "GetFormatsList" /\ pc = "done") =>
        LET e     == FL_Entries
            kept  == SelectSeq(FL_Tokens, FL_Usable)
        IN
        /\ e = ResolveFormats(map.outputformatlist, kept, 1, <<>>)
        /\ \A p \in 1..Len(kept) :
              \E k \in 1..Len(e) : strcasecmp_eq(e[k], FL_MimeOf(kept[p]))
        /\ \A k \in 1..Len(e) :
              \E p \in 1..Len(kept) : e[k] = FL_MimeOf(kept[p])

\* a first name that is skipped (unknown, or known with an empty MIME type)
\* followed by a name that differs in case from the format it resolves to
C13_Witness ==
    /\ request.op = "GetFormatsList" /\ pc = "done" /\ request.hasLayer
    /\ Len(FL_Tokens) = 2
    /\ ~FL_Usable(FL_Tokens[1])
    /\ FL_Usable(FL_Tokens[2])
    /\ \A k \in 1..Len(map.outputformatlist) :
          map.outputformatlist[k].name # FL_Tokens[2]
    /\ FL_Entries = <<FL_MimeOf(FL_Tokens[2])>>

(* ---- C14 ---- *)

\* the names of the WCS-supported layers, in server order
SupportedLayerNames ==
    LET sup == SelectSeq(map.layers, LAMBDA l : l.supported)
    IN [k \in 1..Len(sup) |-> sup[k].name]

\* the values advertised in document d for parameter param of operation op
ParameterValues(d, op, param) ==
    {v.text : v \in UNION {Range(p.children) :
        p \in UNION {{q \in Range(o.children) :
                         q.tag = "ows:Parameter" /\ q.text = param} :
            o \in UNION {{x \in Range(m.children) :
                             x.tag = "ows:Operation" /\ x.text = op} :
                m \in {y \in Range(d.children) :
                          y.tag = "ows:OperationsMetadata"}}}}}

\* the identifiers a comma delimited parameter value lists
ListedIdentifiers(value) ==
    IF value = <<>> THEN <<>> ELSE msStringSplit(value, ",")

\* C14: after a successful GetCapabilities the 'identifiers' parameter of
\* DescribeCoverage and the 'Identifier' parameter of GetCoverage both list,
\* comma-joined, exactly the names of the WCS-supported layers in server
\* order, and Contents holds exactly one CoverageSummary per supported layer
\* in that order, each with the layer's name as Identifier; an unsupported
\* layer is in neither.
C14_IdentifiersAreSupportedLayers ==
    (request.op = "GetCapabilities" /\ pc = "done" /\ status = MS_SUCCESS) =>
        /\ Cardinality(WrittenDocuments) = 1
        /\ \A d \in WrittenDocuments :
              LET names == SupportedLayerNames
                  nodes == SummaryNodes(d)
              IN
              /\ \A pv \in {ParameterValues(d, "DescribeCoverage", "identifiers"),
                             ParameterValues(d, "GetCoverage", "Identifier")} :
                    /\ Cardinality(pv) = 1
                    /\ \A v \in pv : ListedIdentifiers(v) = names
              /\ Len(nodes) = Len(names)
              /\ \A k \in 1..Len(nodes) :
                    /\ nodes[k].tag = "CoverageSummary"
                    /\ TagTexts(nodes[k].children, "Identifier") = <<names[k]>>

\* a successful GetCapabilities over an unsupported layer followed by a
\* supported one
C14_Witness ==
    /\ request.op = "GetCapabilities" /\ pc = "done" /\ status = MS_SUCCESS
    /\ Len(map.layers) = 2
    /\ ~map.layers[1].supported /\ map.layers[2].supported
    /\ \E d \in WrittenDocuments : Len(SummaryNodes(d)) = 1

(* ---- C15 ---- *)

\* the DescribeCoverage documents whose describe loop is over: the one in
\* memory once the loop has ended, and the one written
FinishedDescriptions ==
    IF request.op # "DescribeCoverage" THEN {}
    ELSE WrittenDocuments
         \cup (IF \/ pc = "cleanup"
                   \/ /\ pc = "describe"
                      /\ idx > Len(TargetLayers(map.layers, params.coverages))
                THEN {doc} ELSE {})

\* the Identifier of each CoverageDescription of document d, in order
DescribedNames(d) ==
    LET nodes == DescriptionNodes(d)
    IN [k \in 1..Len(nodes) |-> TagTexts(nodes[k].children, "Identifier")[1]]

OnlyDescriptions(d) ==
    \A k \in 1..Len(d.children) : d.children[k].tag = "CoverageDescription"

NamesOf(layers) == [k \in 1..Len(layers) |-> layers[k].name]

\* C15 as stated: with no identifiers requested the document holds one
\* CoverageDescription for each WCS-supported layer whose coverage metadata
\* can be computed, in server order, and none for any other layer.
C15_AllSupportedLayersDescribed ==
    (request.op = "DescribeCoverage" /\ request.coverages = NullList) =>
        \A d \in FinishedDescriptions :
            /\ OnlyDescriptions(d)
            /\ DescribedNames(d) =
                  NamesOf(SelectSeq(map.layers,
                                    LAMBDA l : l.supported /\ l.cmOK))

\* C15: with no identifiers requested the document holds one
\* CoverageDescription for each layer that is WCS-supported, has its
\* back-reference to the map and whose coverage metadata can be computed, in
\* server order, and none for any other layer.
C15_AllAttachedSupportedLayersDescribed ==
    (request.op = "DescribeCoverage" /\ request.coverages = NullList) =>
        \A d \in FinishedDescriptions :
            /\ OnlyDescriptions(d)
            /\ DescribedNames(d) =
                  NamesOf(SelectSeq(map.layers,
                                    LAMBDA l : l.hasMap /\ l.supported /\ l.cmOK))

\* all layers were the targets: the first one is not described, the second
\* one is, and the document was written
C15_Witness ==
    /\ request.op = "DescribeCoverage" /\ request.coverages = NullList
    /\ pc = "done" /\ status = MS_SUCCESS
    /\ Len(map.layers) = 2
    /\ map.layers[1].hasMap /\ ~map.layers[1].supported
    /\ \E d \in WrittenDocuments : DescribedNames(d) = <<map.layers[2].name>>

(* ---- C16 ---- *)

\* the layers a DescribeCoverage call whose identifiers all resolve works
\* on, in order
RequestedTargets ==
    IF params.coverages = NullList THEN map.layers
    ELSE [j \in 1..Len(params.coverages) |->
             map.layers[Min(LayersNamed(params.coverages[j]))]]

\* C16: a DescribeCoverage target that is not WCS-supported, or has no
\* back-reference to the map, is skipped without failing the request: no
\* CoverageDescription bears its name, the other targets are still described
\* in their order, and the document is written and success returned.
C16_SkippedTargetsDoNotFail ==
    /\ \A d \in FinishedDescriptions :
          LET targets   == RequestedTargets
              described == DescribedNames(d)
              names     == Range(described)
          IN
          /\ \A j \in 1..Len(targets) :
                LET l == targets[j] IN
                /\ (~l.supported \/ ~l.hasMap) => l.name \notin names
                /\ (l.supported /\ l.hasMap /\ l.cmOK) => l.name \in names
          /\ described = NamesOf(SelectSeq(targets, LAMBDA l : l.name \in names))
    /\ (/\ request.op = "DescribeCoverage" /\ pc = "done"
        /\ exception = NoException /\ env.binaryStdoutOK) =>
          status = MS_SUCCESS /\ Cardinality(WrittenDocuments) = 1

\* a layer without back-reference was requested before a describable one,
\* and the document holding only the second was written
C16_Witness ==
    /\ request.op = "DescribeCoverage" /\ pc = "done" /\ status = MS_SUCCESS
    /\ params.coverages # NullList /\ Len(RequestedTargets) >= 2
    /\ ~RequestedTargets[1].hasMap
    /\ RequestedTargets[2].hasMap /\ RequestedTargets[2].supported
    /\ \E d \in WrittenDocuments : DescribedNames(d) = <<RequestedTargets[2].name>>

(* ---- C17 ---- *)

\* the child of node n with that tag
Child(n, tag) == CHOOSE c \in Range(n.children) : c.tag = tag

GridCRSOf(n) == Child(Child(Child(n, "Domain"), "SpatialDomain"), "GridCRS")

DigitValue(c) == CHOOSE v \in 0..9 : Digits[v + 1] = c

\* the natural number a digit string denotes
RECURSIVE ParseNat(_)
ParseNat(s) ==
    IF s = <<>> THEN 0
    ELSE 10 * ParseNat(SubSeq(s, 1, Len(s) - 1)) + DigitValue(s[Len(s)])

\* the number of halves of the decimal number s: an optional sign, digits,
\* and an optional fraction that is ".5"
ParseHalves(s) ==
    LET neg  == Len(s) > 0 /\ s[1] = "-"
        body == IF neg THEN Tail(s) ELSE s
        dot  == FindChar(body, ".", 1)
        int  == SubSeq(body, 1, dot - 1)
        frac == SubSeq(body, dot + 1, Len(body))
        a    == 2 * ParseNat(int) + (IF frac = <<"5">> THEN 1 ELSE 0)
    IN IF neg THEN -a ELSE a

\* the two numbers of a "x y" text, in halves
ParsePair(text) ==
    LET t == msStringSplit(text, " ")
    IN <<ParseHalves(t[1]), ParseHalves(t[2])>>

\* C17: in every CoverageDescription, GridOrigin is the pair
\* (gt0 + gt1/2 + gt2/2, gt3 + gt4/2 + gt5/2) and GridOffsets the pair
\* (gt1, gt5) with their signs, gt being the layer's geotransform; for
\* (100, 30, 0, 200, 0, -30) the texts are "115 185" and "30 -30".
C17_GridOriginAtPixelCenter ==
    \A d \in FinishedDescriptions :
        \A k \in 1..Len(DescriptionNodes(d)) :
            LET n       == DescriptionNodes(d)[k]
                gt      == NodeLayer(n).geotransform
                grid    == GridCRSOf(n)
                origin  == TagTexts(grid.children, "GridOrigin")
                offsets == TagTexts(grid.children, "GridOffsets")
            IN
            /\ Len(origin) = 1 /\ Len(offsets) = 1
            /\ Len(msStringSplit(origin[1], " ")) = 2
            /\ Len(msStringSplit(offsets[1], " ")) = 2
            /\ ParsePair(origin[1]) = <<2 * gt[0] + gt[1] + gt[2],
                                        2 * gt[3] + gt[4] + gt[5]>>
            /\ ParsePair(offsets[1]) = <<2 * gt[1], 2 * gt[5]>>
            /\ (gt = GeoTransform(100, 30, 0, 200, 0, -30)) =>
                  /\ origin[1] = <<"1", "1", "5", " ", "1", "8", "5">>
                  /\ offsets[1] = <<"3", "0", " ", "-", "3", "0">>

\* a written description of a rotated grid with a flipped y axis whose
\* origin has a fraction
C17_Witness ==
    /\ request.op = "DescribeCoverage" /\ pc = "done" /\ status = MS_SUCCESS
    /\ \E d \in WrittenDocuments :
          /\ Len(DescriptionNodes(d)) = 1
          /\ LET n  == DescriptionNodes(d)[1]
                 gt == NodeLayer(n).geotransform
             IN /\ gt[2] # 0 /\ gt[4] # 0 /\ gt[5] < 0
                /\ (gt[1] + gt[2]) % 2 = 1
                /\ TagTexts(GridCRSOf(n).children, "GridOrigin") # <<>>

(* ---- C18 ---- *)

Kinds(items) == [k \in 1..Len(items) |-> items[k].kind]

\* the multipart header, the XML manifest part and the headers of the
\* coverage part, line by line
EnvelopeKinds ==
    << "header", "blank",
       "boundary", "partheader", "partheader", "blank", "manifest",
       "boundary", "partheader", "partheader", "partheader", "partheader",
       "partheader", "blank" >>

\* C18: msWCSReturnCoverage11 has written the multipart header, the whole
\* manifest part and the coverage part headers before image encoding
\* starts; when encoding fails the exception is reported after that
\* content, none of which is withdrawn, and the call returns the exception
\* status, not success.
C18_EnvelopePrecedesEncoding ==
    (request.op = "GetCoverage" /\ pc # "start") =>
        LET n == Len(EnvelopeKinds) IN
        /\ Len(out) >= n
        /\ SubSeq(Kinds(out), 1, n) = EnvelopeKinds
        /\ out[9].arg = map.outputformat.mimetype
        /\ pc = "save" => Len(out) = n
        /\ (pc = "done" /\ ~env.saveImageOK) =>
              /\ Len(out) = n + 1
              /\ out[n + 1].kind = "exception"
              /\ exception # NoException
              /\ status = MS_FAILURE

\* the exception reported after the envelope when encoding failed
C18_Witness ==
    /\ request.op = "GetCoverage" /\ pc = "done" /\ ~env.saveImageOK
    /\ Len(out) = Len(EnvelopeKinds) + 1
    /\ out[Len(out)].kind = "exception"
    /\ status = MS_FAILURE

(* ---- C19 ---- *)

HasComma(s) == \E k \in 1..Len(s) : s[k] = ","

\* C19 as stated: the identifier list is re-split only when it holds
\* exactly one entry: with two or more entries an entry with a comma is not
\* split and is looked up verbatim as a layer name, and a single entry
\* without a comma leaves the list with that same single identifier.
C19_SplitOnlySingleEntry ==
    (request.op = "DescribeCoverage" /\ pc # "start") =>
        /\ CSLCount(request.coverages) >= 2 =>
              /\ params.coverages = request.coverages
              /\ (pc = "done" /\ UnresolvedIn(request.coverages) # {}) =>
                    exception.error =
                        request.coverages[Min(UnresolvedIn(request.coverages))]
        /\ (CSLCount(request.coverages) = 1 /\ ~HasComma(request.coverages[1])) =>
              params.coverages = request.coverages

(* ---- C20 ---- *)

Describable(l) == l.hasMap /\ l.supported /\ l.cmOK

\* C20: once validation has passed, DescribeCoverage ignores the status of
\* each CoverageDescription construction: a layer whose coverage metadata
\* cannot be computed contributes no node, the later targets are still
\* described, and the document is written and success returned.
C20_DescriptionStatusIgnored ==
    LET finished == FinishedDescriptions IN
    /\ \A d \in finished :
          LET targets   == RequestedTargets
              described == DescribedNames(d)
              names     == Range(described)
          IN
          /\ described = NamesOf(SelectSeq(targets, Describable))
          /\ \A j \in 1..Len(targets) :
                ~targets[j].cmOK => targets[j].name \notin names
    /\ (/\ request.op = "DescribeCoverage" /\ pc = "done"
        /\ exception = NoException /\ env.binaryStdoutOK) =>
          /\ status = MS_SUCCESS
          /\ WrittenDocuments = finished
          /\ finished # {}

\* the metadata of the first target could not be computed, the second
\* target was described and the document written with success
C20_Witness ==
    /\ request.op = "DescribeCoverage" /\ pc = "done" /\ status = MS_SUCCESS
    /\ Len(RequestedTargets) >= 2
    /\ RequestedTargets[1].hasMap /\ RequestedTargets[1].supported
    /\ ~RequestedTargets[1].cmOK
    /\ Describable(RequestedTargets[2])
    /\ \E d \in WrittenDocuments : DescribedNames(d) = <<RequestedTargets[2].name>>

=============================================================================
